---- MODULE Spec2Model ----
(***************************************************************************)
(* The trafficlight client of src/scripts/trafficlight.ts: one async       *)
(* thread of control that registers with the control server, launches a    *)
(* browser, and then polls for actions, dispatches them to the browser     *)
(* and reports the result.                                                 *)
(***************************************************************************)
EXTENDS Integers, Sequences, FiniteSets, TLC

\* ------------------------------------------------------------------ bounds

\* Number of registration cycles (session identifiers) explored.
MaxSessions == 2

\* Number of poll requests explored per session.
MaxPolls == 3

Sessions == 1..MaxSessions

\* --------------------------------------------------------------- JS values

\* The JavaScript value undefined (runAction's "return;" and an unset let).
Undefined == [t |-> "undefined", v |-> ""]

\* A JavaScript string.
Str(s) == [t |-> "string", v |-> s]

\* Variant of Truthy: the respond is sent whatever the result.
TruthyAlways(v) == TRUE

\* JavaScript truthiness of a string | undefined, as tested by if (result).
Truthy(v) == v.t = "string" /\ v.v # ""

\* ------------------------------------------------------------ HTTP outcomes

\* HTTP statuses the control server may answer with.
Statuses == {200, 204, 500}

\* The fetch promise rejected (no HTTP response at all).
Rejected == -1

FetchOutcomes == Statuses \cup {Rejected}

\* Variant of RegisterFailed: only 4xx and 5xx count as failure.
RegisterFailedLoose(status) == status >= 400

\* registerAsClient: if (response.status != 200) throw
RegisterFailed(status) == status # 200

\* Variant of PollFailed: only 4xx and 5xx count as failure.
PollFailedLoose(status) == status >= 400

\* pollLoop: if (pollResponse.status !== 200) throw
PollFailed(status) == status # 200

\* Variant of RespondFailed: only 4xx and 5xx count as failure.
RespondFailedLoose(status) == status >= 400

\* pollLoop: if (respondResponse.status !== 200) throw
RespondFailed(status) == status # 200

\* ------------------------------------------------------------ poll payloads

\* The data fields read by some case of runAction.
Fields ==
    {"homeserver_url", "username", "password", "name", "topic", "message",
     "historyVisibility", "user"}

\* pollData.data is undefined or null.
NoData == [defined |-> FALSE, fields |-> {}]

\* pollData.data is an object holding usable values for the fields F.
Data(F) == [defined |-> TRUE, fields |-> F]

DataInputs ==
    {NoData, Data(Fields), Data({})} \cup {Data(Fields \ {f}) : f \in Fields}

\* The action names with a case of their own in runAction's switch.
SupportedActions ==
    {"register", "login", "start_crosssign", "accept_crosssign",
     "verify_crosssign_emoji", "idle", "create_room", "send_message",
     "change_room_history_visibility", "invite_user"}

\* Names that fall through to the default case.
UnknownActions == {"frobnicate", "EXIT", ""}

ActionInputs == SupportedActions \cup UnknownActions \cup {"exit"}

\* Before the first successful poll of a cycle there is no pollData.
NoPollData == [action |-> "", data |-> NoData]

\* A poll body: text that is not JSON, the JSON value null, or an object.
PollBodies ==
    {[kind |-> "garbage", action |-> "", data |-> NoData],
     [kind |-> "null", action |-> "", data |-> NoData]}
    \cup {[kind |-> "object", action |-> a, data |-> d] :
            a \in ActionInputs, d \in DataInputs}

\* Variant of IsExit: the comparison is made against another spelling.
IsExitLoose(action) == action = "EXIT"

\* pollLoop: if (pollData.action === 'exit')
IsExit(action) == action = "exit"

\* ------------------------------------------------------- runAction's cases

Goto(hash) == [kind |-> "goto", target |-> hash, field |-> "", enter |-> FALSE]

Click(sel) == [kind |-> "click", target |-> sel, field |-> "", enter |-> FALSE]

\* click(get(`...${data[f]}`)): the selector is built from a data field.
ClickField(f, sel) == [kind |-> "click", target |-> sel, field |-> f, enter |-> FALSE]

Type(f, sel) == [kind |-> "type", target |-> sel, field |-> f, enter |-> FALSE]

TypeEnter(f, sel) == [kind |-> "type", target |-> sel, field |-> f, enter |-> TRUE]

\* click(contains(label, get(rootSel)))
ClickContains(label, rootSel) ==
    [kind |-> "contains", target |-> label, field |-> rootSel, enter |-> FALSE]

Sleep == [kind |-> "sleep", target |-> "5000", field |-> "", enter |-> FALSE]

\* if (data['topic']) of create_room; data['name'] has been read before it.
TopicGiven(data) == data.defined /\ "topic" \in data.fields

\* The statements of each case of the switch, in source order.
Steps(action, data) ==
    CASE action = "register" ->
           <<Goto("#/register"),
             Click(".mx_ServerPicker_change"),
             Type("homeserver_url", ".mx_ServerPickerDialog_otherHomeserver"),
             Click(".mx_ServerPickerDialog_continue"),
             Type("username", "#mx_RegistrationForm_username"),
             Type("password", "#mx_RegistrationForm_password"),
             Type("password", "#mx_RegistrationForm_passwordConfirm"),
             Click(".mx_Login_submit"),
             Click(".mx_UseCaseSelection_skip > .mx_AccessibleButton")>>
      [] action = "login" ->
           <<Goto("#/login"),
             Click(".mx_ServerPicker_change"),
             Type("homeserver_url", ".mx_ServerPickerDialog_otherHomeserver"),
             Click(".mx_ServerPickerDialog_continue"),
             Type("username", "#mx_LoginForm_username"),
             Type("password", "#mx_LoginForm_password"),
             Click(".mx_Login_submit")>>
      [] action = "start_crosssign" ->
           <<Click(".mx_CompleteSecurity_actionRow > .mx_AccessibleButton")>>
      [] action = "accept_crosssign" ->
           <<Click(".mx_Toast_buttons > .mx_AccessibleButton_kind_primary"),
             Click(".mx_VerificationPanel_QRPhase_startOption > .mx_AccessibleButton")>>
      [] action = "verify_crosssign_emoji" ->
           <<Click(".mx_VerificationShowSas_buttonRow > .mx_AccessibleButton_kind_primary"),
             Click(".mx_UserInfo_container > .mx_AccessibleButton")>>
      [] action = "idle" ->
           <<Sleep>>
      [] action = "create_room" ->
           <<Click(".mx_RoomListHeader_plusButton"),
             ClickContains("New room", ".mx_ContextualMenu"),
             Type("name", ".mx_CreateRoomDialog_name input")>>
           \o (IF TopicGiven(data)
               THEN <<Type("topic", ".mx_CreateRoomDialog_topic input")>>
               ELSE <<>>)
           \o <<Click(".mx_Dialog_primary")>>
      [] action = "send_message" ->
           <<TypeEnter("message", ".mx_SendMessageComposer div[contenteditable=true]")>>
      [] action = "change_room_history_visibility" ->
           <<Click(".mx_RightPanel_roomSummaryButton"),
             Click(".mx_RoomSummaryCard_icon_settings"),
             Click("[data-testid='settings-tab-ROOM_SECURITY_TAB']"),
             ClickField("historyVisibility", "label:has(#historyVis-"),
             Click(".mx_Dialog_cancelButton"),
             Click("[data-test-id=base-card-close-button]")>>
      [] action = "invite_user" ->
           <<Click(".mx_RightPanel_roomSummaryButton"),
             Click(".mx_RoomSummaryCard_icon_people"),
             Click(".mx_MemberList_invite"),
             TypeEnter("user", ".mx_InviteDialog_addressBar input"),
             Click(".mx_InviteDialog_goButton")>>
      [] OTHER -> <<>>

\* Variant of ReturnValue: login returns the token of register.
ReturnValueSwapped(action) ==
    CASE action = "register" -> Str("registered")
      [] action = "login" -> Str("registered")
      [] action = "start_crosssign" -> Str("started_crosssign")
      [] action = "accept_crosssign" -> Str("accepted_crosssign")
      [] action = "verify_crosssign_emoji" -> Str("verified_crosssign")
      [] action = "idle" -> Undefined
      [] action = "create_room" -> Str("room_created")
      [] action = "send_message" -> Str("message_sent")
      [] action = "change_room_history_visibility" -> Str("changed")
      [] action = "invite_user" -> Str("invited")
      [] OTHER -> Undefined

\* Variant of ReturnValue: the default case returns a token.
ReturnValueWarns(action) ==
    CASE action = "register" -> Str("registered")
      [] action = "login" -> Str("loggedin")
      [] action = "start_crosssign" -> Str("started_crosssign")
      [] action = "accept_crosssign" -> Str("accepted_crosssign")
      [] action = "verify_crosssign_emoji" -> Str("verified_crosssign")
      [] action = "idle" -> Undefined
      [] action = "create_room" -> Str("room_created")
      [] action = "send_message" -> Str("message_sent")
      [] action = "change_room_history_visibility" -> Str("changed")
      [] action = "invite_user" -> Str("invited")
      [] OTHER -> Str("unknown")

\* Variant of ReturnValue: idle returns a token.
ReturnValueIdleToken(action) ==
    CASE action = "register" -> Str("registered")
      [] action = "login" -> Str("loggedin")
      [] action = "start_crosssign" -> Str("started_crosssign")
      [] action = "accept_crosssign" -> Str("accepted_crosssign")
      [] action = "verify_crosssign_emoji" -> Str("verified_crosssign")
      [] action = "idle" -> Str("idled")
      [] action = "create_room" -> Str("room_created")
      [] action = "send_message" -> Str("message_sent")
      [] action = "change_room_history_visibility" -> Str("changed")
      [] action = "invite_user" -> Str("invited")
      [] OTHER -> Undefined

\* Variant of ReturnValue: idle returns the empty string.
ReturnValueIdleEmpty(action) ==
    CASE action = "register" -> Str("registered")
      [] action = "login" -> Str("loggedin")
      [] action = "start_crosssign" -> Str("started_crosssign")
      [] action = "accept_crosssign" -> Str("accepted_crosssign")
      [] action = "verify_crosssign_emoji" -> Str("verified_crosssign")
      [] action = "idle" -> Str("")
      [] action = "create_room" -> Str("room_created")
      [] action = "send_message" -> Str("message_sent")
      [] action = "change_room_history_visibility" -> Str("changed")
      [] action = "invite_user" -> Str("invited")
      [] OTHER -> Undefined

\* The value returned at the end of each case of the switch.
ReturnValue(action) ==
    CASE action = "register" -> Str("registered")
      [] action = "login" -> Str("loggedin")
      [] action = "start_crosssign" -> Str("started_crosssign")
      [] action = "accept_crosssign" -> Str("accepted_crosssign")
      [] action = "verify_crosssign_emoji" -> Str("verified_crosssign")
      [] action = "idle" -> Undefined
      [] action = "create_room" -> Str("room_created")
      [] action = "send_message" -> Str("message_sent")
      [] action = "change_room_history_visibility" -> Str("changed")
      [] action = "invite_user" -> Str("invited")
      [] OTHER -> Undefined

\* Variant of ReadThrows: reads of missing data yield undefined (as with ?.).
ReadThrowsNever(s, data) == FALSE

\* Evaluating the statement's data expression raises a TypeError: a property
\* read of undefined, either data itself or data['homeserver_url'].
ReadThrows(s, data) ==
    /\ s.kind \in {"click", "type"}
    /\ s.field # ""
    /\ \/ ~data.defined
       \/ s.field = "homeserver_url" /\ "homeserver_url" \notin data.fields

IsPrefix(s, t) == Len(s) <= Len(t) /\ \A i \in 1..Len(s) : s[i] = t[i]

\* A browser operation issued to the page.
Op(name, target) == [op |-> name, target |-> target]

Outcome(opsIssued, raised) == [ops |-> opsIssued, threw |-> raised]

\* What one statement of a case can do: the browser operations it issues, in
\* order, and whether it raises.  waitForSelector finds the element or times
\* out; $x finds the element, finds none, or raises; every operation on an
\* element completes or raises.
StepOutcomes(s, data) ==
    IF ReadThrows(s, data) THEN {Outcome(<<>>, TRUE)}
    ELSE CASE s.kind = "goto" ->
                {Outcome(<<Op("goto", s.target)>>, b) : b \in BOOLEAN}
           [] s.kind = "sleep" ->
                {Outcome(<<>>, FALSE)}
           [] s.kind = "click" ->
                {Outcome(<<Op("waitForSelector", s.target)>>, TRUE)}
                \cup {Outcome(<<Op("waitForSelector", s.target),
                                Op("click", s.target)>>, b) : b \in BOOLEAN}
           [] s.kind = "type" ->
                {Outcome(<<Op("waitForSelector", s.target)>>, TRUE),
                 Outcome(<<Op("waitForSelector", s.target),
                           Op("type", s.target)>>, TRUE)}
                \cup (IF s.enter
                      THEN {Outcome(<<Op("waitForSelector", s.target),
                                      Op("type", s.target),
                                      Op("press", s.target)>>, b) : b \in BOOLEAN}
                      ELSE {Outcome(<<Op("waitForSelector", s.target),
                                      Op("type", s.target)>>, FALSE)})
           [] s.kind = "contains" ->
                {Outcome(<<Op("waitForSelector", s.field)>>, TRUE),
                 Outcome(<<Op("waitForSelector", s.field),
                           Op("$x", s.target)>>, TRUE),
                 Outcome(<<Op("waitForSelector", s.field),
                           Op("$x", s.target)>>, FALSE)}
                \cup {Outcome(<<Op("waitForSelector", s.field),
                                Op("$x", s.target),
                                Op("click", s.target)>>, b) : b \in BOOLEAN}

\* -------------------------------------------------------------------- state

VARIABLES
    pc,            \* where the async thread of startRegisterLoop stands
    uuid,          \* the session identifier of the current cycle (0: none yet)
    nextUuid,      \* the next identifier crypto.randomUUID() yields
    shouldExit,    \* pollLoop's flag
    pollData,      \* the parsed body of the cycle's poll
    result,        \* pollLoop's let result
    step,          \* the statement of the case runAction stands at
    opi,           \* operations of that statement issued so far
    awaiting,      \* runAction awaits an operation (for idle, its timer)
    ops,           \* browser operations issued by the current dispatch
    page,          \* the session that created the page handed to pollLoop
    browsers,      \* sessions whose browser is open
    inflight,      \* asynchronous operations issued and not yet settled
    regs,          \* register requests issued, per session
    polls,         \* poll requests issued, per session
    responds,      \* respond requests issued, per session
    regStatus,     \* outcome of the register request, per session answered
    ended,         \* sessions whose cycle has ended (returned or thrown)
    exited,        \* sessions whose pollLoop returned after "exit"
    cycDispatches, \* runAction calls of the current poll cycle
    cycResponds,   \* respond requests of the current poll cycle
    threw,         \* runAction raised in the current poll cycle
    pollStatus,    \* outcome of the cycle's poll request, once answered
    pollBody,      \* kind of body of the cycle's poll, once parsed or failed
    respondStatus, \* outcome of the cycle's respond request, once answered
    respondBody,   \* the response value sent by the cycle's respond request
    launch,        \* how startClient ended for the current session ("": not yet)
    lpc,           \* launcher: where the launcher script stands
    largs,         \* launcher: process.argv.slice(2)
    luuid,         \* launcher: the identifier of the current cycle (0: none yet)
    lnextUuid,     \* launcher: the next identifier crypto.randomUUID() yields
    lregs,         \* launcher: register requests issued, per identifier
    lregStatus,    \* launcher: outcome of the register request, once answered
    runners,       \* launcher: identifiers a test runner was started for
    runnerResult,  \* launcher: how the runner of an identifier ended
    exitCode       \* launcher: the code process.exit was called with, if it was

agentVars ==
    <<pc, uuid, nextUuid, shouldExit, pollData, result, step, opi,
      awaiting, ops, page,
      browsers, inflight, regs, polls, responds, regStatus, ended, exited,
      cycDispatches, cycResponds, threw, pollStatus, pollBody, respondStatus,
      respondBody, launch>>

launcherVars ==
    <<lpc, largs, luuid, lnextUuid, lregs, lregStatus, runners, runnerResult,
      exitCode>>

vars == <<agentVars, launcherVars>>

sessionVars == <<uuid, nextUuid, page, browsers, regs, regStatus, launch>>

cycleVars ==
    <<cycDispatches, cycResponds, threw, pollStatus, pollBody, respondStatus,
      respondBody>>

AgentInit ==
    /\ pc = "gen_uuid"
    /\ uuid = 0
    /\ nextUuid = 1
    /\ shouldExit = FALSE
    /\ pollData = NoPollData
    /\ result = Undefined
    /\ step = 1
    /\ opi = 0
    /\ awaiting = FALSE
    /\ ops = <<>>
    /\ page = 0
    /\ browsers = {}
    /\ inflight = {}
    /\ regs = [u \in Sessions |-> 0]
    /\ polls = [u \in Sessions |-> 0]
    /\ responds = [u \in Sessions |-> 0]
    /\ regStatus = <<>>
    /\ ended = {}
    /\ exited = {}
    /\ cycDispatches = 0
    /\ cycResponds = 0
    /\ threw = FALSE
    /\ pollStatus = {}
    /\ pollBody = ""
    /\ respondStatus = {}
    /\ respondBody = Undefined
    /\ launch = ""

\* The launcher script is not running.
LauncherIdle ==
    /\ lpc = "idle"
    /\ largs = <<>>
    /\ luuid = 0
    /\ lnextUuid = 1
    /\ lregs = <<>>
    /\ lregStatus = <<>>
    /\ runners = {}
    /\ runnerResult = <<>>
    /\ exitCode = {}

Init == AgentInit /\ LauncherIdle

\* Variant of Crash: the error is caught and the register loop goes round.
CrashRestarts ==
    /\ pc' = "gen_uuid"
    /\ ended' = IF uuid = 0 THEN ended ELSE ended \cup {uuid}

\* An error leaves startRegisterLoop: its promise rejects and nobody handles
\* it, so no statement of the loop runs again.
Crash ==
    /\ pc' = "crashed"
    /\ ended' = IF uuid = 0 THEN ended ELSE ended \cup {uuid}

\* ---------------------------------------------------------------- actions

\* startRegisterLoop: a fresh uuid, and registerAsClient's fetch is issued.
StartRegister ==
    /\ pc = "gen_uuid"
    /\ nextUuid <= MaxSessions
    /\ uuid' = nextUuid
    /\ nextUuid' = nextUuid + 1
    /\ regs' = [regs EXCEPT ![nextUuid] = @ + 1]
    /\ inflight' = inflight \cup {"register"}
    /\ pc' = "await_register"
    /\ launch' = ""
    /\ UNCHANGED <<shouldExit, pollData, result, step, opi,
                   awaiting, ops, page, browsers,
                   polls, responds, regStatus, ended, exited>>
    /\ UNCHANGED cycleVars
    /\ UNCHANGED launcherVars

\* registerAsClient: the fetch settles; any status but 200 throws.
RegisterReturns ==
    /\ pc = "await_register"
    /\ \E o \in FetchOutcomes :
         /\ regStatus' = (uuid :> o) @@ regStatus
         /\ IF o = Rejected \/ RegisterFailed(o)
            THEN Crash
            ELSE pc' = "start_client" /\ ended' = ended
    /\ inflight' = inflight \ {"register"}
    /\ UNCHANGED <<uuid, nextUuid, shouldExit, pollData, result, step, opi,
                   awaiting, ops,
                   page, browsers, regs, polls, responds, exited, launch>>
    /\ UNCHANGED cycleVars
    /\ UNCHANGED launcherVars

\* startClient: puppeteer.launch is called.
StartClient ==
    /\ pc = "start_client"
    /\ pc' = "await_launch"
    /\ inflight' = inflight \cup {"launch"}
    /\ UNCHANGED <<uuid, nextUuid, shouldExit, pollData, result, step, opi,
                   awaiting,
                   ops, page, browsers, regs, polls, responds, regStatus,
                   ended, exited, launch>>
    /\ UNCHANGED cycleVars
    /\ UNCHANGED launcherVars

\* Variant of LaunchReturns: a browser that is already open is used again.
LaunchReturnsReuses ==
    /\ pc = "await_launch"
    /\ \E ok \in BOOLEAN :
         IF ok
         THEN /\ browsers' = IF browsers # {} THEN browsers
                             ELSE browsers \cup {uuid}
              /\ inflight' = (inflight \ {"launch"}) \cup {"newPage"}
              /\ pc' = "await_new_page"
              /\ UNCHANGED <<launch, ended>>
         ELSE /\ launch' = "launch_failed"
              /\ inflight' = inflight \ {"launch"}
              /\ Crash
              /\ UNCHANGED browsers
    /\ UNCHANGED <<uuid, nextUuid, shouldExit, pollData, result, step, opi,
                   awaiting,
                   ops, page, regs, polls, responds, regStatus, exited>>
    /\ UNCHANGED cycleVars
    /\ UNCHANGED launcherVars

\* startClient: puppeteer.launch settles; the browser is open, and
\* browser.newPage is called, or the launch failed.
LaunchReturns ==
    /\ pc = "await_launch"
    /\ \E ok \in BOOLEAN :
         IF ok
         THEN /\ browsers' = browsers \cup {uuid}
              /\ inflight' = (inflight \ {"launch"}) \cup {"newPage"}
              /\ pc' = "await_new_page"
              /\ UNCHANGED <<launch, ended>>
         ELSE /\ launch' = "launch_failed"
              /\ inflight' = inflight \ {"launch"}
              /\ Crash
              /\ UNCHANGED browsers
    /\ UNCHANGED <<uuid, nextUuid, shouldExit, pollData, result, step, opi,
                   awaiting,
                   ops, page, regs, polls, responds, regStatus, exited>>
    /\ UNCHANGED cycleVars
    /\ UNCHANGED launcherVars

\* startClient: browser.newPage settles; the timeout is set and page.goto
\* is called, or newPage failed.
NewPageReturns ==
    /\ pc = "await_new_page"
    /\ \E ok \in BOOLEAN :
         IF ok
         THEN /\ page' = uuid
              /\ inflight' = (inflight \ {"newPage"}) \cup {"goto"}
              /\ pc' = "await_goto"
              /\ UNCHANGED <<launch, ended>>
         ELSE /\ launch' = "new_page_failed"
              /\ inflight' = inflight \ {"newPage"}
              /\ Crash
              /\ UNCHANGED page
    /\ UNCHANGED <<uuid, nextUuid, shouldExit, pollData, result, step, opi,
                   awaiting,
                   ops, browsers, regs, polls, responds, regStatus, exited>>
    /\ UNCHANGED cycleVars
    /\ UNCHANGED launcherVars

\* startClient: page.goto settles; startClient returns and pollLoop starts
\* with shouldExit = false, or the navigation failed.
GotoReturns ==
    /\ pc = "await_goto"
    /\ inflight' = inflight \ {"goto"}
    /\ \E ok \in BOOLEAN :
         IF ok
         THEN /\ launch' = "ok"
              /\ shouldExit' = FALSE
              /\ pc' = "poll_loop"
              /\ ended' = ended
         ELSE /\ launch' = "goto_failed"
              /\ Crash
              /\ UNCHANGED shouldExit
    /\ UNCHANGED <<uuid, nextUuid, pollData, result, step, opi,
                   awaiting, ops, page,
                   browsers, regs, polls, responds, regStatus, exited>>
    /\ UNCHANGED cycleVars
    /\ UNCHANGED launcherVars

\* Variant of PollLoopReturns: the agent stops after "exit".
PollLoopReturnsStops ==
    /\ pc = "poll_loop"
    /\ shouldExit
    /\ pc' = "stopped"
    /\ ended' = ended \cup {uuid}
    /\ exited' = exited \cup {uuid}
    /\ pollData' = NoPollData
    /\ result' = Undefined
    /\ step' = 1
    /\ opi' = 0
    /\ awaiting' = FALSE
    /\ ops' = <<>>
    /\ cycDispatches' = 0
    /\ cycResponds' = 0
    /\ threw' = FALSE
    /\ pollStatus' = {}
    /\ pollBody' = ""
    /\ respondStatus' = {}
    /\ respondBody' = Undefined
    /\ UNCHANGED <<shouldExit, inflight, polls, responds>>
    /\ UNCHANGED sessionVars
    /\ UNCHANGED launcherVars

\* pollLoop: while (!shouldExit) is false; pollLoop returns, its locals and
\* the record of its last cycle go with it, and startRegisterLoop goes round.
PollLoopReturns ==
    /\ pc = "poll_loop"
    /\ shouldExit
    /\ pc' = "gen_uuid"
    /\ ended' = ended \cup {uuid}
    /\ exited' = exited \cup {uuid}
    /\ pollData' = NoPollData
    /\ result' = Undefined
    /\ step' = 1
    /\ opi' = 0
    /\ awaiting' = FALSE
    /\ ops' = <<>>
    /\ cycDispatches' = 0
    /\ cycResponds' = 0
    /\ threw' = FALSE
    /\ pollStatus' = {}
    /\ pollBody' = ""
    /\ respondStatus' = {}
    /\ respondBody' = Undefined
    /\ UNCHANGED <<shouldExit, inflight, polls, responds>>
    /\ UNCHANGED sessionVars
    /\ UNCHANGED launcherVars

\* pollLoop: while (!shouldExit) is true; the poll fetch is issued.
PollIssue ==
    /\ pc = "poll_loop"
    /\ ~shouldExit
    /\ polls[uuid] < MaxPolls
    /\ polls' = [polls EXCEPT ![uuid] = @ + 1]
    /\ inflight' = inflight \cup {"poll"}
    /\ pc' = "await_poll"
    /\ pollData' = NoPollData
    /\ result' = Undefined
    /\ step' = 1
    /\ opi' = 0
    /\ awaiting' = FALSE
    /\ ops' = <<>>
    /\ cycDispatches' = 0
    /\ cycResponds' = 0
    /\ threw' = FALSE
    /\ pollStatus' = {}
    /\ pollBody' = ""
    /\ respondStatus' = {}
    /\ respondBody' = Undefined
    /\ UNCHANGED <<shouldExit, responds, ended, exited>>
    /\ UNCHANGED sessionVars
    /\ UNCHANGED launcherVars

\* pollLoop: the poll fetch settles; any status but 200 throws, and on 200
\* pollResponse.json() is called.
PollReturns ==
    /\ pc = "await_poll"
    /\ \E o \in FetchOutcomes :
         /\ pollStatus' = {o}
         /\ IF o = Rejected \/ PollFailed(o)
            THEN /\ Crash
                 /\ inflight' = inflight \ {"poll"}
            ELSE /\ pc' = "await_json"
                 /\ inflight' = (inflight \ {"poll"}) \cup {"json"}
                 /\ ended' = ended
    /\ UNCHANGED <<shouldExit, pollData, result, step, opi,
                   awaiting, ops, polls,
                   responds, exited, cycDispatches, cycResponds, threw,
                   pollBody, respondStatus, respondBody>>
    /\ UNCHANGED sessionVars
    /\ UNCHANGED launcherVars

\* pollLoop: pollResponse.json() settles; the body is parsed or json()
\* throws, pollData.action is read, and the exit test is made.
JsonReturns ==
    /\ pc = "await_json"
    /\ \E body \in PollBodies :
         /\ pollBody' = body.kind
         /\ IF body.kind # "object"
            THEN /\ Crash
                 /\ UNCHANGED <<pollData, shouldExit, cycDispatches>>
            ELSE /\ pollData' = [action |-> body.action, data |-> body.data]
                 /\ ended' = ended
                 /\ IF IsExit(body.action)
                    THEN /\ shouldExit' = TRUE
                         /\ pc' = "poll_loop"
                         /\ UNCHANGED cycDispatches
                    ELSE /\ pc' = "run_action"
                         /\ cycDispatches' = cycDispatches + 1
                         /\ UNCHANGED shouldExit
    /\ inflight' = (inflight \ {"json"})
                   \cup (IF pc' = "run_action" THEN {"dispatch"} ELSE {})
    /\ UNCHANGED <<result, step, opi, awaiting, ops, polls, responds, exited,
                   cycResponds, threw, pollStatus, respondStatus, respondBody>>
    /\ UNCHANGED sessionVars
    /\ UNCHANGED launcherVars

\* Variant of OnDispatchThrow: the error leaves pollLoop.
OnDispatchThrowRethrows ==
    /\ Crash
    /\ UNCHANGED result

\* Variant of OnDispatchThrow: the error is reported under another word.
OnDispatchThrowFailed ==
    /\ result' = Str("failed")
    /\ pc' = "if_result"
    /\ ended' = ended

\* pollLoop: catch (err) { result = 'error' }
OnDispatchThrow ==
    /\ result' = Str("error")
    /\ pc' = "if_result"
    /\ ended' = ended

\* What the statement runAction stands at can do.
StatementOutcomes ==
    StepOutcomes(Steps(pollData.action, pollData.data)[step], pollData.data)

\* The operations the statement runAction stands at has issued so far.
IssuedOps == SubSeq(ops, Len(ops) - opi + 1, Len(ops))

\* runAction: the next statement of the case starts.  Evaluating its
\* arguments raises, or its first operation (for idle, its timer) is issued
\* and awaited.
RunActionStep ==
    /\ pc = "run_action"
    /\ ~awaiting
    /\ step <= Len(Steps(pollData.action, pollData.data))
    /\ IF \E o \in StatementOutcomes : o.ops = <<>> /\ o.threw
       THEN /\ threw' = TRUE
            /\ OnDispatchThrow
            /\ inflight' = inflight \ {"dispatch"}
            /\ UNCHANGED <<opi, awaiting, ops>>
       ELSE /\ awaiting' = TRUE
            /\ UNCHANGED inflight
            /\ \E o \in StatementOutcomes :
                 IF o.ops = <<>>
                 THEN UNCHANGED <<opi, ops>>
                 ELSE opi' = 1 /\ ops' = Append(ops, o.ops[1])
            /\ UNCHANGED <<pc, result, ended, threw>>
    /\ UNCHANGED <<shouldExit, pollData, step, polls, responds, exited,
                   cycDispatches, cycResponds, pollStatus, pollBody,
                   respondStatus, respondBody>>
    /\ UNCHANGED sessionVars
    /\ UNCHANGED launcherVars

\* Variant of OpSettles: an error of a statement is swallowed and the next
\* statement runs.
OpSettlesContinues ==
    /\ pc = "run_action"
    /\ awaiting
    /\ \E o \in StatementOutcomes :
         /\ IsPrefix(IssuedOps, o.ops)
         /\ \/ /\ o.ops = IssuedOps
               /\ threw' = o.threw
               /\ step' = step + 1
               /\ opi' = 0
               /\ awaiting' = FALSE
               /\ UNCHANGED inflight
               /\ UNCHANGED <<pc, result, ended, ops>>
            \/ /\ Len(o.ops) > opi
               /\ ops' = Append(ops, o.ops[opi + 1])
               /\ opi' = opi + 1
               /\ UNCHANGED <<pc, result, ended, threw, step, awaiting,
                              inflight>>
    /\ UNCHANGED <<shouldExit, pollData, polls, responds, exited,
                   cycDispatches, cycResponds, pollStatus, pollBody,
                   respondStatus, respondBody>>
    /\ UNCHANGED sessionVars
    /\ UNCHANGED launcherVars

\* Variant of OpSettles: a dispatch that raised is tried once more.
OpSettlesRetries ==
    /\ pc = "run_action"
    /\ awaiting
    /\ \E o \in StatementOutcomes :
         /\ IsPrefix(IssuedOps, o.ops)
         /\ \/ /\ o.ops = IssuedOps /\ o.threw /\ cycDispatches = 1
               /\ step' = 1
               /\ opi' = 0
               /\ cycDispatches' = cycDispatches + 1
               /\ awaiting' = FALSE
               /\ UNCHANGED inflight
               /\ UNCHANGED <<pc, result, ended, threw, ops>>
            \/ /\ o.ops = IssuedOps /\ o.threw /\ cycDispatches # 1
               /\ threw' = TRUE
               /\ OnDispatchThrow
               /\ opi' = 0
               /\ awaiting' = FALSE
               /\ inflight' = inflight \ {"dispatch"}
               /\ UNCHANGED <<step, ops, cycDispatches>>
            \/ /\ o.ops = IssuedOps /\ ~o.threw
               /\ step' = step + 1
               /\ opi' = 0
               /\ awaiting' = FALSE
               /\ UNCHANGED inflight
               /\ UNCHANGED <<pc, result, ended, threw, ops, cycDispatches>>
            \/ /\ Len(o.ops) > opi
               /\ ops' = Append(ops, o.ops[opi + 1])
               /\ opi' = opi + 1
               /\ UNCHANGED <<pc, result, ended, threw, step, awaiting,
                              inflight, cycDispatches>>
    /\ UNCHANGED <<shouldExit, pollData, polls, responds, exited,
                   cycResponds, pollStatus, pollBody,
                   respondStatus, respondBody>>
    /\ UNCHANGED sessionVars
    /\ UNCHANGED launcherVars

\* runAction: the awaited operation of the statement settles.  It raises,
\* or the statement goes on to its next operation, or the statement is done.
OpSettles ==
    /\ pc = "run_action"
    /\ awaiting
    /\ \E o \in StatementOutcomes :
         /\ IsPrefix(IssuedOps, o.ops)
         /\ \/ /\ o.ops = IssuedOps /\ o.threw
               /\ threw' = TRUE
               /\ OnDispatchThrow
               /\ opi' = 0
               /\ awaiting' = FALSE
               /\ inflight' = inflight \ {"dispatch"}
               /\ UNCHANGED <<step, ops>>
            \/ /\ o.ops = IssuedOps /\ ~o.threw
               /\ step' = step + 1
               /\ opi' = 0
               /\ awaiting' = FALSE
               /\ UNCHANGED inflight
               /\ UNCHANGED <<pc, result, ended, threw, ops>>
            \/ /\ Len(o.ops) > opi
               /\ ops' = Append(ops, o.ops[opi + 1])
               /\ opi' = opi + 1
               /\ UNCHANGED <<pc, result, ended, threw, step, awaiting,
                              inflight>>
    /\ UNCHANGED <<shouldExit, pollData, polls, responds, exited,
                   cycDispatches, cycResponds, pollStatus, pollBody,
                   respondStatus, respondBody>>
    /\ UNCHANGED sessionVars
    /\ UNCHANGED launcherVars

\* runAction: the case's return statement.
RunActionReturn ==
    /\ pc = "run_action"
    /\ step > Len(Steps(pollData.action, pollData.data))
    /\ result' = ReturnValue(pollData.action)
    /\ inflight' = inflight \ {"dispatch"}
    /\ pc' = "if_result"
    /\ UNCHANGED <<shouldExit, pollData, step, opi,
                   awaiting, ops, polls, responds, ended,
                   exited>>
    /\ UNCHANGED sessionVars
    /\ UNCHANGED cycleVars
    /\ UNCHANGED launcherVars

\* Variant of IfResult: the respond fetch is not awaited.
IfResultNoAwait ==
    /\ pc = "if_result"
    /\ IF Truthy(result)
       THEN /\ responds' = [responds EXCEPT ![uuid] = @ + 1]
            /\ cycResponds' = cycResponds + 1
            /\ respondBody' = result
            /\ inflight' = inflight \cup {"respond"}
            /\ pc' = "poll_loop"
       ELSE /\ pc' = "poll_loop"
            /\ UNCHANGED <<responds, cycResponds, respondBody, inflight>>
    /\ UNCHANGED <<shouldExit, pollData, result, step, opi,
                   awaiting, ops, polls, ended,
                   exited, cycDispatches, threw, pollStatus, pollBody,
                   respondStatus>>
    /\ UNCHANGED sessionVars
    /\ UNCHANGED launcherVars

\* pollLoop: if (result) the respond fetch is issued, else the loop goes round.
IfResult ==
    /\ pc = "if_result"
    /\ IF Truthy(result)
       THEN /\ responds' = [responds EXCEPT ![uuid] = @ + 1]
            /\ cycResponds' = cycResponds + 1
            /\ respondBody' = result
            /\ inflight' = inflight \cup {"respond"}
            /\ pc' = "await_respond"
       ELSE /\ pc' = "poll_loop"
            /\ UNCHANGED <<responds, cycResponds, respondBody, inflight>>
    /\ UNCHANGED <<shouldExit, pollData, result, step, opi,
                   awaiting, ops, polls, ended,
                   exited, cycDispatches, threw, pollStatus, pollBody,
                   respondStatus>>
    /\ UNCHANGED sessionVars
    /\ UNCHANGED launcherVars

\* pollLoop: the respond fetch settles; any status but 200 throws.
RespondReturns ==
    /\ pc = "await_respond"
    /\ inflight' = inflight \ {"respond"}
    /\ \E o \in FetchOutcomes :
         /\ respondStatus' = {o}
         /\ IF o = Rejected \/ RespondFailed(o)
            THEN Crash
            ELSE pc' = "poll_loop" /\ ended' = ended
    /\ UNCHANGED <<shouldExit, pollData, result, step, opi,
                   awaiting, ops, polls, responds,
                   exited, cycDispatches, cycResponds, threw, pollStatus,
                   pollBody, respondBody>>
    /\ UNCHANGED sessionVars
    /\ UNCHANGED launcherVars

Next ==
    \/ StartRegister
    \/ RegisterReturns
    \/ StartClient
    \/ LaunchReturns
    \/ NewPageReturns
    \/ GotoReturns
    \/ PollLoopReturns
    \/ PollIssue
    \/ PollReturns
    \/ JsonReturns
    \/ RunActionStep
    \/ OpSettles
    \/ RunActionReturn
    \/ IfResult
    \/ RespondReturns

Spec == Init /\ [][Next]_vars

\* The agent with every enabled step eventually taken: the event loop runs
\* each continuation once its promise settles, and every request and every
\* browser operation eventually settles (answered, rejected or timed out).
FairSpec == Init /\ [][Next]_vars /\ WF_vars(Next)

\* ----------------------------------------------------------------- launcher

\* Number of register-and-run cycles of the launcher explored.
MaxRuns == 4

Runs == 1..MaxRuns

\* Command lines: no argument, the two modes, and other first arguments.
ArgInputs ==
    {<<>>, <<"run">>, <<"open">>, <<"RUN">>, <<"">>, <<"runs">>,
     <<"open", "run">>, <<"stop", "run">>}

\* args[0]: undefined when there is no argument.
Arg0(args) == IF Len(args) = 0 THEN Undefined ELSE Str(args[1])

\* Variant of IsMode: any argument starting a known word selects the mode.
IsModeLoose(arg, mode) ==
    arg = Str(mode) \/ (mode = "run" /\ arg \in {Str("RUN"), Str("runs")})

\* args[0] == 'run', args[0] == 'open'
IsMode(arg, mode) == arg = Str(mode)

\* The launcher starts; the agent's state is not its concern.
LauncherInit ==
    /\ AgentInit
    /\ lpc = "main"
    /\ largs \in ArgInputs
    /\ luuid = 0
    /\ lnextUuid = 1
    /\ lregs = [u \in Runs |-> 0]
    /\ lregStatus = <<>>
    /\ runners = {}
    /\ runnerResult = <<>>
    /\ exitCode = {}

\* The launcher's top level: dispatch on args[0].
LauncherMain ==
    /\ lpc = "main"
    /\ IF IsMode(Arg0(largs), "run")
       THEN lpc' = "run_loop" /\ UNCHANGED exitCode
       ELSE IF IsMode(Arg0(largs), "open")
            THEN lpc' = "run_once" /\ UNCHANGED exitCode
            ELSE lpc' = "exited" /\ exitCode' = {1}
    /\ UNCHANGED <<largs, luuid, lnextUuid, lregs, lregStatus, runners,
                   runnerResult>>
    /\ UNCHANGED agentVars

\* runOnce / runRepeatedly: a fresh uuid, and setupPromise's fetch is issued.
SetupIssue ==
    /\ lpc \in {"run_loop", "run_once"}
    /\ lnextUuid <= MaxRuns
    /\ luuid' = lnextUuid
    /\ lnextUuid' = lnextUuid + 1
    /\ lregs' = [lregs EXCEPT ![lnextUuid] = @ + 1]
    /\ lpc' = IF lpc = "run_loop" THEN "await_setup_run" ELSE "await_setup_once"
    /\ UNCHANGED <<largs, lregStatus, runners, runnerResult, exitCode>>
    /\ UNCHANGED agentVars

\* setupPromise settles: any status but 200 throws and the rejection leaves
\* runOnce / runRepeatedly unhandled; on 200 the runner is started.
SetupReturns ==
    /\ lpc \in {"await_setup_run", "await_setup_once"}
    /\ \E o \in FetchOutcomes :
         /\ lregStatus' = (luuid :> o) @@ lregStatus
         /\ IF o = Rejected \/ RegisterFailed(o)
            THEN lpc' = "rejected" /\ UNCHANGED runners
            ELSE /\ runners' = runners \cup {luuid}
                 /\ lpc' = IF lpc = "await_setup_run" THEN "await_runner_run"
                                                     ELSE "await_runner_once"
    /\ UNCHANGED <<largs, luuid, lnextUuid, lregs, runnerResult, exitCode>>
    /\ UNCHANGED agentVars

\* cypress.run / cypress.open settles: runRepeatedly goes round, runOnce
\* returns; a rejection leaves either unhandled.
RunnerReturns ==
    /\ lpc \in {"await_runner_run", "await_runner_once"}
    /\ \E o \in {"passed", "failed", "rejected"} :
         /\ runnerResult' = (luuid :> o) @@ runnerResult
         /\ lpc' = IF o = "rejected" THEN "rejected"
                   ELSE IF lpc = "await_runner_run" THEN "run_loop"
                   ELSE "done"
    /\ UNCHANGED <<largs, luuid, lnextUuid, lregs, lregStatus, runners,
                   exitCode>>
    /\ UNCHANGED agentVars

LauncherNext ==
    \/ LauncherMain
    \/ SetupIssue
    \/ SetupReturns
    \/ RunnerReturns

\* The launcher script (the agent of trafficlight.ts is a separate program).
LauncherSpec == LauncherInit /\ [][LauncherNext]_vars

TypeOK ==
    /\ pc \in {"gen_uuid", "await_register", "start_client", "await_launch",
               "await_new_page", "await_goto", "poll_loop", "await_poll",
               "await_json", "run_action", "if_result", "await_respond",
               "crashed"}
    /\ uuid \in 0..MaxSessions
    /\ nextUuid \in 1..(MaxSessions + 1)
    /\ shouldExit \in BOOLEAN
    /\ result \in {Undefined} \cup {ReturnValue(a) : a \in SupportedActions}
                  \cup {Str("error")}
    /\ inflight \subseteq {"register", "launch", "newPage", "goto", "poll",
                         "json", "dispatch", "respond"}
    /\ awaiting \in BOOLEAN
    /\ awaiting => pc = "run_action"
    /\ opi \in 0..3
    /\ opi <= Len(ops)
    /\ launch \in {"", "ok", "launch_failed", "new_page_failed", "goto_failed"}
    /\ ended \subseteq Sessions
    /\ exited \subseteq ended
    /\ browsers \subseteq Sessions

\* ------------------------------------------------------------ claim helpers

\* The cycle's poll delivered an action request.
Polled == pollBody = "object"

\* runAction has settled for the cycle's action (returned or raised).
Dispatched == Polled /\ cycDispatches = 1 /\ pc # "run_action"

\* The data fields the case of an action reads.
FieldsRead(action) ==
    {Steps(action, Data(Fields))[i].field :
        i \in {j \in 1..Len(Steps(action, Data(Fields))) :
                 Steps(action, Data(Fields))[j].kind \in {"click", "type"}}}
    \ {""}

\* A supported action whose data lacks a field the action reads.
MalformedRequest ==
    /\ Polled
    /\ pollData.action \in SupportedActions
    /\ ~(FieldsRead(pollData.action) \subseteq pollData.data.fields)

\* No poll and no respond request is issued for a session that has ended.
EndedSessionsSilent ==
    \A u \in ended : polls'[u] = polls[u] /\ responds'[u] = responds[u]

\* ------------------------------------------------------------------- claims

\* C1: when a poll returns "exit", the cycle calls runAction zero times and
\* issues no respond request, the only step from there is the end of the
\* session, and an ended session sees no further poll or respond request.
C1_ExitEndsSession ==
    /\ [](Polled /\ pollData.action = "exit" =>
            /\ cycDispatches = 0
            /\ cycResponds = 0
            /\ result = Undefined
            /\ pc = "poll_loop"
            /\ shouldExit
            /\ uuid \notin ended)
    /\ [][(Polled /\ pollData.action = "exit") =>
            (uuid \in exited' /\ polls' = polls /\ responds' = responds)]_vars
    /\ [][EndedSessionsSilent]_vars

\* C1 witness: a session that polled more than once has exited, and the
\* agent is polling under the next identifier.
C1_Witness ==
    \E u \in exited : polls[u] >= 2 /\ uuid # u /\ polls[uuid] >= 1

\* C2: a poll cycle issues exactly one respond request when its action
\* yielded a non-absent result, and none otherwise (exit, idle, unknown).
C2_RespondPerCycle ==
    /\ cycResponds <= 1
    /\ cycDispatches <= 1
    /\ result # Undefined => cycDispatches = 1
    /\ pc = "if_result" => cycResponds = 0
    /\ pc # "if_result" =>
         cycResponds = (IF result # Undefined THEN 1 ELSE 0)
    /\ (Polled /\ pollData.action \in UnknownActions \cup {"exit", "idle"}) =>
         cycResponds = 0

\* C2 witness: a session whose first cycle responded once and whose second
\* cycle, an idle, ended without a respond.
C2_Witness ==
    /\ pc = "poll_loop"
    /\ uuid # 0
    /\ polls[uuid] = 2
    /\ responds[uuid] = 1
    /\ Polled
    /\ pollData.action = "idle"
    /\ cycResponds = 0

\* C3: at most one asynchronous operation is in flight at any time, and a
\* poll is issued only with nothing in flight and the previous cycle
\* finalized: its respond answered 200, or no respond was to be sent.
C3_Sequential ==
    /\ [](Cardinality(inflight) <= 1)
    /\ [][polls' # polls =>
            /\ inflight = {}
            /\ \/ polls[uuid] = 0
               \/ cycResponds = 1 /\ respondStatus = {200}
               \/ cycResponds = 0 /\ cycDispatches = 1 /\ result = Undefined]_vars

\* C3 witness: a later poll of a session is in flight, alone, after a respond.
C3_Witness ==
    /\ pc = "await_poll"
    /\ inflight = {"poll"}
    /\ polls[uuid] >= 2
    /\ responds[uuid] >= 1

\* C4: when runAction raises, the result is "error", a respond carrying
\* "error" is issued, the session ends only if that respond fails, and after
\* a 200 the loop stands at the next poll.
C4_DispatchErrorReported ==
    threw =>
      /\ result = Str("error")
      /\ pc \in {"if_result", "await_respond", "poll_loop", "crashed"}
      /\ pc # "if_result" => cycResponds = 1 /\ respondBody = Str("error")
      /\ pc = "crashed" => respondStatus # {} /\ respondStatus # {200}
      /\ respondStatus = {200} =>
           pc = "poll_loop" /\ ~shouldExit /\ uuid \notin ended

\* C4 witness: create_room raised, "error" was sent and answered 200, and
\* the loop is about to poll again.
C4_Witness ==
    /\ threw
    /\ pollData.action = "create_room"
    /\ pollData.data = Data(Fields \ {"topic"})
    /\ respondBody = Str("error")
    /\ respondStatus = {200}
    /\ pc = "poll_loop"

\* C5: an action name that is neither supported nor "exit" issues no browser
\* operation, yields absent, sends no respond and leaves the loop at the next
\* poll.
C5_UnknownActionIgnored ==
    (Polled /\ pollData.action \notin SupportedActions \cup {"exit"}) =>
      /\ cycDispatches = 1
      /\ ops = <<>>
      /\ ~threw
      /\ result = Undefined
      /\ cycResponds = 0
      /\ pc \in {"run_action", "if_result", "poll_loop"}
      /\ ~shouldExit
      /\ uuid \notin ended

\* C5 witness: "frobnicate" has been dispatched and the loop is back at the
\* poll.
C5_Witness ==
    /\ Polled
    /\ pollData.action = "frobnicate"
    /\ pc = "poll_loop"

\* C6 as stated: a malformed request of a supported action yields absent and
\* no respond is sent.
C6_MalformedYieldsAbsent ==
    (MalformedRequest /\ Dispatched) =>
      result = Undefined /\ cycResponds = 0

\* C6 amended: a malformed request of a supported action never yields absent.
\* The result is "error" when a step raised, and always so when
\* homeserver_url is missing or data itself is; otherwise it is the action's
\* token.  Exactly one respond carries it, and the loop polls again only
\* after that respond answered 200.
C6_MalformedNeverAbsent ==
    (MalformedRequest /\ Dispatched) =>
      /\ result # Undefined
      /\ result = (IF threw THEN Str("error") ELSE ReturnValue(pollData.action))
      /\ (~pollData.data.defined \/ "homeserver_url" \in
            FieldsRead(pollData.action) \ pollData.data.fields) =>
           result = Str("error")
      /\ pc # "if_result" => cycResponds = 1 /\ respondBody = result
      /\ pc = "poll_loop" => respondStatus = {200}

\* C6 witness: login without homeserver_url was answered with "error".
C6_Witness ==
    /\ Polled
    /\ pollData.action = "login"
    /\ pollData.data = Data(Fields \ {"homeserver_url"})
    /\ respondBody = Str("error")
    /\ pc = "poll_loop"

\* C7: a supported action whose dispatch does not raise yields absent for
\* idle, and otherwise a non-empty token that is the token of no other
\* supported action and is fixed by the action name alone.
C7_TokensDistinct ==
    (Dispatched /\ pollData.action \in SupportedActions /\ ~threw) =>
      IF pollData.action = "idle"
      THEN result = Undefined
      ELSE /\ result.t = "string"
           /\ result.v \notin {"", "error"}
           /\ result = ReturnValue(pollData.action)
           /\ \A b \in SupportedActions \ {pollData.action} :
                ReturnValue(b) # result

\* C7 witness: a well-formed login ran all of its thirteen browser
\* operations and returned "loggedin".
C7_Witness ==
    /\ Dispatched
    /\ pollData.action = "login"
    /\ pollData.data = Data(Fields)
    /\ ~threw
    /\ Len(ops) = 13
    /\ result = Str("loggedin")

\* C8: a session whose register request was answered with anything but 200
\* has no browser, no poll request and no respond request, and the agent
\* has stopped.
C8_RegisterFailureFatal ==
    /\ \A u \in DOMAIN regStatus :
         regStatus[u] # 200 =>
           /\ u \notin browsers
           /\ polls[u] = 0
           /\ responds[u] = 0
           /\ u \in ended
           /\ pc = "crashed"
    /\ \A u \in Sessions \ DOMAIN regStatus :
         u \notin browsers /\ polls[u] = 0 /\ responds[u] = 0

\* C8 witness: after a first session exited, the second registration was
\* answered 500.
C8_Witness ==
    /\ exited # {}
    /\ uuid \in DOMAIN regStatus
    /\ regStatus[uuid] = 500
    /\ pc = "crashed"

\* C9: a poll answered with a status other than 200, or with a body that
\* does not parse to an action request, ends the session: no runAction, no
\* respond, and no further poll for it.
C9_PollFailureFatal ==
    /\ []((pollStatus # {} /\ (pollStatus # {200}
                                   \/ pollBody \notin {"", "object"})) =>
            /\ pc = "crashed"
            /\ uuid \in ended
            /\ cycDispatches = 0
            /\ cycResponds = 0
            /\ ops = <<>>)
    /\ [][pc = "crashed" => UNCHANGED <<polls, responds, regs>>]_vars
    /\ [][EndedSessionsSilent]_vars

\* C9 witness: the second poll of a session was answered 200 with a body
\* that is not JSON.
C9_Witness ==
    /\ pollStatus = {200}
    /\ pollBody = "garbage"
    /\ pc = "crashed"
    /\ polls[uuid] >= 2

\* C10: a respond answered with a status other than 200 ends the session:
\* the result is left as dispatched (the catch around runAction does not
\* see it), the respond is not sent again, and no further request is issued
\* for the session.
C10_RespondFailureFatal ==
    /\ []((respondStatus # {} /\ respondStatus # {200}) =>
            /\ pc = "crashed"
            /\ uuid \in ended
            /\ cycResponds = 1
            /\ respondBody = result
            /\ result = (IF threw THEN Str("error")
                                  ELSE ReturnValue(pollData.action)))
    /\ [][(respondStatus' # {} /\ respondStatus' # {200}) =>
            (pc = "await_respond" /\ responds' = responds)]_vars
    /\ [][EndedSessionsSilent]_vars

\* C10 witness: the respond carrying "loggedin" was answered 500.
C10_Witness ==
    /\ respondStatus = {500}
    /\ respondBody = Str("loggedin")
    /\ ~threw
    /\ pc = "crashed"

\* pollLoop is running for the current session.
InPollLoop ==
    pc \in {"poll_loop", "await_poll", "await_json", "run_action",
            "if_result", "await_respond"}

\* C11: every registration cycle uses an identifier never registered before
\* and launches a browser of its own; the register request of a cycle is
\* issued only after the previous cycle's poll loop has ended, with nothing in
\* flight; and pollLoop, and so every dispatch, works on the page created in
\* its own cycle.
C11_SessionsFreshAndDisjoint ==
    /\ [](\A u \in Sessions : regs[u] <= 1)
    /\ [](InPollLoop => page = uuid /\ uuid \in browsers /\ uuid \notin ended)
    /\ [][regs' # regs =>
            /\ uuid = 0 \/ uuid \in ended
            /\ inflight = {}
            /\ uuid' # uuid
            /\ regs[uuid'] = 0
            /\ uuid' \notin browsers]_vars
    /\ [][browsers' # browsers =>
            uuid \notin browsers /\ browsers' = browsers \cup {uuid}]_vars

\* C11 witness: the second session dispatches on its own page after the
\* first one exited.
C11_Witness ==
    /\ uuid = 2
    /\ 1 \in exited
    /\ pc = "run_action"
    /\ Len(ops) > 0
    /\ page = 2
    /\ browsers = {1, 2}

\* C12 as stated: every non-exit action whose dispatch does not raise has
\* had exactly one respond by the time the loop is back at the poll.
C12_EveryResultResponded ==
    (Dispatched /\ ~threw /\ pc = "poll_loop") => cycResponds = 1

\* C12 amended: a non-exit action whose dispatch does not raise and yields a
\* token (a supported action other than idle) has had exactly one respond,
\* carrying that token and answered 200, by the time the loop is back at the
\* poll; idle and unknown actions yield absent and have had none.
C12_TokenResultResponded ==
    /\ pc = "if_result" => cycResponds = 0
    /\ (Dispatched /\ ~threw /\ pc # "if_result") =>
         IF pollData.action \in SupportedActions \ {"idle"}
         THEN /\ cycResponds = 1
              /\ respondBody = ReturnValue(pollData.action)
              /\ respondBody # Undefined
              /\ pc = "poll_loop" => respondStatus = {200}
         ELSE /\ cycResponds = 0
              /\ result = Undefined
              /\ pc = "poll_loop"

\* C12 witness: send_message returned its token, the respond was answered
\* 200 and the loop is back at the poll.
C12_Witness ==
    /\ Dispatched
    /\ ~threw
    /\ pollData.action = "send_message"
    /\ pc = "poll_loop"
    /\ cycResponds = 1
    /\ respondBody = Str("message_sent")
    /\ respondStatus = {200}

\* C13: the respond of a cycle carries "error" exactly when runAction
\* raised in that cycle, a dispatch that raised is always reported so, and a
\* failed registration, poll or respond issues no respond request.
C13_ErrorResponseIffRaised ==
    /\ [](cycResponds = 1 => (respondBody = Str("error") <=> threw))
    /\ []((threw /\ pc # "if_result") =>
            cycResponds = 1 /\ respondBody = Str("error"))
    /\ [](cycResponds = 0 => respondBody = Undefined)
    /\ [](\A u \in DOMAIN regStatus : regStatus[u] # 200 => responds[u] = 0)
    /\ []((pollStatus # {} /\ (pollStatus # {200}
                                   \/ pollBody \notin {"", "object"})) =>
            cycResponds = 0)
    /\ [][(pc' = "crashed" \/ pc = "crashed") => responds' = responds]_vars

\* C13 witness: invite_user raised and the respond carrying "error" is in
\* flight.
C13_Witness ==
    /\ threw
    /\ pollData.action = "invite_user"
    /\ pc = "await_respond"
    /\ respondBody = Str("error")

\* The sessions that have a successor within the bound on identifiers.
Predecessors == Sessions \ {MaxSessions}

\* Session v never reaches its first poll: its registration was refused or
\* its browser did not start.
StartFailed(v) ==
    \/ v \in DOMAIN regStatus /\ regStatus[v] # 200
    \/ uuid = v /\ launch \in {"launch_failed", "new_page_failed", "goto_failed"}

\* C14 (as stated): in the run-forever agent, after a poll returns "exit" the
\* agent eventually issues a register request with a newly generated
\* identifier, launches a new browser and resumes polling under it.
C14_ExitResumesPolling ==
    \A u \in Predecessors :
        (u \in exited) ~> (/\ regs[u + 1] = 1
                           /\ (u + 1) \in browsers
                           /\ polls[u + 1] >= 1)

\* C14 (amended): after a poll returns "exit" the agent does not terminate:
\* it eventually issues a register request with a newly generated identifier,
\* and then either that registration is refused or the browser fails to start
\* (which is fatal), or it launches a new browser and issues a poll under the
\* new identifier.
C14_ExitRegistersAgain ==
    /\ \A u \in Predecessors :
         (u \in exited) ~> (regs[u + 1] = 1 /\ regs[u] = 1)
    /\ \A u \in Predecessors :
         (u \in exited) ~> \/ StartFailed(u + 1)
                           \/ /\ (u + 1) \in browsers
                              /\ polls[u + 1] >= 1
    /\ [](\A u \in Sessions : u \in exited => u \in ended /\ uuid >= u)
    /\ [](\A u \in Sessions :
            polls[u] >= 1 => /\ regs[u] = 1
                             /\ u \in browsers
                             /\ u \in DOMAIN regStatus /\ regStatus[u] = 200)

C14_Witness ==
    /\ 1 \in exited
    /\ uuid = 2
    /\ regs[2] = 1
    /\ 2 \in browsers
    /\ polls[2] = 1
    /\ pc = "await_poll"

\* C15: when the launcher's first argument is neither "run" nor "open" (or is
\* missing), the process exits with code 1, no register request is issued
\* and no test runner is launched.
C15_BadArgumentExits ==
    Arg0(largs) \notin {Str("run"), Str("open")} =>
        /\ \A u \in Runs : lregs[u] = 0
        /\ lnextUuid = 1
        /\ lregStatus = <<>>
        /\ runners = {}
        /\ runnerResult = <<>>
        /\ lpc \in {"main", "exited"}
        /\ lpc = "main" => exitCode = {}
        /\ lpc = "exited" => exitCode = {1}

C15_Witness ==
    /\ largs = <<>>
    /\ Arg0(largs) = Undefined
    /\ lpc = "exited"
    /\ exitCode = {1}
    /\ \A u \in Runs : lregs[u] = 0
    /\ runners = {}

\* The cycle's poll returned "idle" or an action name no case matches.
QuietAction == Polled /\ pollData.action \in {"idle"} \cup UnknownActions

\* The requests the control server has received, per session and endpoint.
Requests == <<regs, polls, responds>>

\* C16: the requests sent to the control server are the same whether the
\* polled action is "idle" or an unknown name: dispatch returns absent
\* without raising, no respond is sent, the loop goes on, and the next
\* request is the next poll of the same session.
C16_IdleAndUnknownAlike ==
    /\ [](QuietAction =>
            /\ pc \in {"run_action", "if_result", "poll_loop"}
            /\ cycDispatches = 1
            /\ ~threw
            /\ result = Undefined
            /\ cycResponds = 0
            /\ respondBody = Undefined /\ respondStatus = {}
            /\ inflight \subseteq {"dispatch"}
            /\ ~shouldExit
            /\ uuid \notin ended)
    /\ [][QuietAction =>
            \/ Requests' = Requests
            \/ /\ pc = "poll_loop"
               /\ polls' = [polls EXCEPT ![uuid] = @ + 1]
               /\ regs' = regs /\ responds' = responds /\ uuid' = uuid]_vars
    /\ [][(QuietAction /\ pc = "if_result") => pc' = "poll_loop"]_vars

C16_Witness ==
    /\ pollData.action = "idle"
    /\ QuietAction
    /\ pc = "poll_loop"
    /\ step = 2
    /\ polls[uuid] = 2
    /\ responds[uuid] = 0

\* An XPath lookup of the current dispatch was not followed by the click on
\* its element: the lookup raised, or it found no element.
LookupMissed ==
    \E i \in 1..Len(ops) :
        /\ ops[i].op = "$x"
        /\ (i = Len(ops) \/ ops[i + 1].op # "click")

\* C17: if an element lookup of a supported action does not find its target,
\* dispatch raises and the result is "error"; runAction never skips the
\* click of a missing element and never returns the action's success token
\* after a lookup that found nothing.
C17_MissingElementRaises ==
    (Dispatched /\ LookupMissed) => (threw /\ result = Str("error"))

\* The browser operations of one statement when nothing raises; found tells
\* whether the XPath lookup of a contains yields an element to click.
StatementOps(s, found) ==
    CASE s.kind = "goto" -> <<Op("goto", s.target)>>
      [] s.kind = "sleep" -> <<>>
      [] s.kind = "click" ->
           <<Op("waitForSelector", s.target), Op("click", s.target)>>
      [] s.kind = "type" ->
           <<Op("waitForSelector", s.target), Op("type", s.target)>>
           \o (IF s.enter THEN <<Op("press", s.target)>> ELSE <<>>)
      [] s.kind = "contains" ->
           <<Op("waitForSelector", s.field), Op("$x", s.target)>>
           \o (IF found THEN <<Op("click", s.target)>> ELSE <<>>)

RECURSIVE OpsFrom(_, _, _)
OpsFrom(steps, i, found) ==
    IF i > Len(steps) THEN <<>>
    ELSE StatementOps(steps[i], found) \o OpsFrom(steps, i + 1, found)

\* The browser operations of a whole case, in source order.
CaseOps(action, data, found) == OpsFrom(Steps(action, data), 1, found)

\* case 'login', operation by operation.
LoginOps ==
    <<Op("goto", "#/login"),
      Op("waitForSelector", ".mx_ServerPicker_change"),
      Op("click", ".mx_ServerPicker_change"),
      Op("waitForSelector", ".mx_ServerPickerDialog_otherHomeserver"),
      Op("type", ".mx_ServerPickerDialog_otherHomeserver"),
      Op("waitForSelector", ".mx_ServerPickerDialog_continue"),
      Op("click", ".mx_ServerPickerDialog_continue"),
      Op("waitForSelector", "#mx_LoginForm_username"),
      Op("type", "#mx_LoginForm_username"),
      Op("waitForSelector", "#mx_LoginForm_password"),
      Op("type", "#mx_LoginForm_password"),
      Op("waitForSelector", ".mx_Login_submit"),
      Op("click", ".mx_Login_submit")>>

\* C18: within one dispatch the browser operations are issued in the fixed
\* order of the action's case (for login: navigate to #/login, change
\* server, type homeserver, continue, type username, type password, submit),
\* each after the one before it; once an operation raises, no later
\* operation of that action is issued.
C18_FixedOrderStopsAtRaise ==
    /\ [](\E found \in BOOLEAN :
            IsPrefix(ops, CaseOps(pollData.action, pollData.data, found)))
    /\ [](pollData.action = "login" => IsPrefix(ops, LoginOps))
    /\ []((Dispatched /\ ~threw) =>
            \E found \in BOOLEAN :
                ops = CaseOps(pollData.action, pollData.data, found))
    /\ [](threw => pc # "run_action")
    /\ [][ops' # ops =>
            \/ ops' = <<>> /\ pc = "poll_loop"
            \/ /\ pc = "run_action" /\ ~threw /\ ~threw'
               /\ ~awaiting \/ opi >= 1
               /\ awaiting'
               /\ Len(ops') = Len(ops) + 1
               /\ IsPrefix(ops, ops')]_vars

C18_Witness ==
    /\ pollData.action = "login"
    /\ threw
    /\ ops = SubSeq(LoginOps, 1, 5)
    /\ pc = "await_respond"
    /\ result = Str("error")

\* C19: runAction is invoked exactly once per successful poll whose action is
\* not "exit" and not at all otherwise; a dispatch that raised is not tried
\* again within its cycle, and the next call of runAction follows a new poll.
C19_DispatchedExactlyOnce ==
    /\ [](cycDispatches =
            IF Polled /\ pollData.action # "exit" THEN 1 ELSE 0)
    /\ [][cycDispatches' # cycDispatches =>
            \/ pc = "await_json" /\ cycDispatches = 0 /\ cycDispatches' = 1
            \/ pc = "poll_loop" /\ cycDispatches' = 0]_vars
    /\ [][pc' = "run_action" =>
            \/ pc = "await_json" /\ step' = 1 /\ ops' = <<>>
            \/ /\ pc = "run_action"
               /\ step' \in {step, step + 1}
               /\ IsPrefix(ops, ops')
               /\ ~threw']_vars
    /\ [][threw =>
            \/ UNCHANGED <<cycDispatches, step, ops, pollData>>
            \/ pc = "poll_loop" /\ cycDispatches' = 0]_vars

C19_Witness ==
    /\ threw
    /\ pollData.action = "start_crosssign"
    /\ cycDispatches = 1
    /\ respondStatus = {200}
    /\ pc = "poll_loop"
    /\ polls[uuid] = 2
    /\ responds[uuid] = 2

\* A register, poll or respond request was answered with a status other than
\* 200 (or not answered at all), or startClient failed.
FatalError ==
    \/ \E u \in DOMAIN regStatus : regStatus[u] # 200
    \/ pollStatus # {} /\ pollStatus # {200}
    \/ respondStatus # {} /\ respondStatus # {200}
    \/ launch \in {"launch_failed", "new_page_failed", "goto_failed"}

\* C20: after a fatal error (register, poll or respond answered non-200, or
\* the browser launch failing) the agent issues no further HTTP request: the
\* failed request is not retried and no new registration cycle starts.
C20_FatalErrorSilences ==
    /\ [](FatalError =>
            /\ pc = "crashed"
            /\ inflight = {}
            /\ uuid \in ended
            /\ regs[uuid] = 1
            /\ nextUuid = uuid + 1)
    /\ [][FatalError => UNCHANGED <<Requests, uuid, nextUuid, pc>>]_vars
    /\ [][pc = "crashed" => UNCHANGED <<Requests, uuid, nextUuid, pc>>]_vars

C20_Witness ==
    /\ launch = "launch_failed"
    /\ FatalError
    /\ pc = "crashed"
    /\ uuid = 2
    /\ 1 \in exited
    /\ 2 \notin browsers
    /\ regs[2] = 1 /\ polls[2] = 0

\* C21: when a session's poll loop ends its browser is closed before the next
\* cycle launches a new one, so at most one browser launched by the agent is
\* open at any time, and the browser of an ended session is not open.
C21_AtMostOneBrowser ==
    /\ \A u, v \in browsers : u = v
    /\ \A u \in exited : u \notin browsers

\* Every request answered so far was answered 200.
ServerAnswers200 ==
    /\ \A u \in DOMAIN regStatus : regStatus[u] = 200
    /\ pollStatus \subseteq {200}
    /\ respondStatus \subseteq {200}

\* The nth poll of session u returned an action other than "exit".
PollReturnedAction(u, n) ==
    /\ uuid = u
    /\ polls[u] = n
    /\ Polled
    /\ pollData.action # "exit"

\* C22: under fairness, if the control server answers every request with 200
\* (and every browser operation completes or raises, as every statement of
\* the model does), every poll that returns a non-exit action is eventually
\* followed by another poll of the same session.
C22_PollFollowsAction ==
    ([]ServerAnswers200) =>
        \A u \in Sessions : \A n \in 1..(MaxPolls - 1) :
            PollReturnedAction(u, n) ~> (uuid = u /\ polls[u] = n + 1)

C22_Witness ==
    /\ ServerAnswers200
    /\ uuid = 1
    /\ polls[1] = 2
    /\ responds[1] = 1
    /\ pc = "await_poll"
    /\ 1 \notin ended

\* Session u's registration was answered 200.
Registered(u) == u \in DOMAIN regStatus /\ regStatus[u] = 200

\* C23: in every cycle the order is register (200), browser launch, first
\* poll: every poll and respond request goes to the identifier of the most
\* recent successful registration, and none is issued for an identifier whose
\* registration has not returned 200 or whose session has ended.
C23_RequestsFollowRegistration ==
    /\ [](\A u \in Sessions :
            (polls[u] >= 1 \/ responds[u] >= 1) =>
                /\ regs[u] = 1
                /\ Registered(u)
                /\ u \in browsers
                /\ responds[u] <= polls[u])
    /\ [][\A u \in Sessions :
            (polls'[u] # polls[u] \/ responds'[u] # responds[u]) =>
                /\ u = uuid
                /\ u \notin ended
                /\ Registered(u)
                /\ \A v \in DOMAIN regStatus : v <= u
                /\ launch = "ok" /\ page = u /\ u \in browsers]_vars
    /\ [][browsers' # browsers =>
            /\ Registered(uuid)
            /\ polls[uuid] = 0 /\ responds[uuid] = 0]_vars
    /\ [](\A u \in Sessions : u \in browsers => Registered(u))

C23_Witness ==
    /\ uuid = 2
    /\ Registered(1) /\ Registered(2)
    /\ 1 \in ended
    /\ polls[2] = 1
    /\ responds[2] = 1
    /\ pc = "await_respond"

\* Launcher: the registration of identifier u was answered 200.
LauncherRegistered(u) == u \in DOMAIN lregStatus /\ lregStatus[u] = 200

\* C24: in the launcher the test runner is started only after the
\* registration of the same fresh identifier returned 200; in "run" mode the
\* next registration is issued only after the previous runner finished, and
\* a registration failure ends the loop without starting a runner; in "open"
\* mode exactly one registration is issued.
C24_LauncherCyclesSequential ==
    /\ [](\A u \in runners : lregs[u] = 1 /\ LauncherRegistered(u))
    /\ [][\A u \in Runs :
            u \in runners' \ runners =>
                /\ u = luuid /\ lregs[u] = 1 /\ LauncherRegistered(u)'
                /\ u \notin DOMAIN lregStatus]_vars
    /\ [][lregs' # lregs =>
            /\ \A u \in Runs : lregs[u] = 1 =>
                 /\ LauncherRegistered(u)
                 /\ u \in runners
                 /\ u \in DOMAIN runnerResult
                 /\ runnerResult[u] # "rejected"
            /\ luuid' # luuid /\ lregs[luuid'] = 0 /\ lregs'[luuid'] = 1]_vars
    /\ [](\A u \in DOMAIN lregStatus :
            lregStatus[u] # 200 =>
                u \notin runners /\ lpc = "rejected" /\ luuid = u)
    /\ [][lpc = "rejected" => UNCHANGED <<lregs, runners, lpc>>]_vars
    /\ [](IsMode(Arg0(largs), "open") =>
            /\ \A u \in Runs : lregs[u] = (IF u = 1 /\ lpc \notin {"main", "run_once"}
                                           THEN 1 ELSE 0)
            /\ lpc \in {"main", "run_once", "await_setup_once",
                        "await_runner_once", "rejected", "done"})

C24_Witness ==
    /\ largs = <<"run">>
    /\ lregs[1] = 1 /\ lregs[2] = 1
    /\ 1 \in DOMAIN runnerResult /\ runnerResult[1] = "failed"
    /\ LauncherRegistered(2)
    /\ runners = {1, 2}
    /\ lpc = "await_runner_run"

\* The strings the cases of runAction return.
SuccessTokens ==
    {"registered", "loggedin", "started_crosssign", "accepted_crosssign",
     "verified_crosssign", "room_created", "message_sent", "changed",
     "invited"}

\* C25: the result of a dispatch is always absent, "error" or one of the
\* nine success tokens, never the empty string, and no success token is
\* "error"; so the truthiness test that decides whether to respond holds
\* exactly when the result is not absent.
C25_TruthyIffPresent ==
    /\ result \in {Undefined, Str("error")} \cup {Str(t) : t \in SuccessTokens}
    /\ result # Str("")
    /\ Cardinality(SuccessTokens) = Cardinality(SupportedActions \ {"idle"})
    /\ "error" \notin SuccessTokens /\ "" \notin SuccessTokens
    /\ Truthy(result) <=> result # Undefined
    /\ (result = Str("error")) <=> threw
    /\ (Dispatched /\ pc # "if_result") =>
          (cycResponds = 1 <=> result # Undefined)
    /\ cycResponds = 1 => respondBody = result /\ Truthy(respondBody)

C25_Witness ==
    /\ pollData.action = "change_room_history_visibility"
    /\ result = Str("changed")
    /\ Truthy(result)
    /\ pc = "if_result"
    /\ ~threw

====
